---- MODULE Spec2Model ----
(***************************************************************************)
(* davislib.models: the Application / ProtectedApplication / CAS clients,  *)
(* their shared requests.Session objects and the CAS login transaction.    *)
(*                                                                         *)
(* Strings that the code searches or concatenates (URLs) are sequences of  *)
(* string pieces; "x in s" is contiguous-subsequence search.  Python None  *)
(* is the string "None", a missing attribute is NoAttr.  A dict is a set   *)
(* of <<key, value>> pairs with at most one pair per key.                  *)
(***************************************************************************)
EXTENDS Integers, Sequences, FiniteSets, TLC

\* ------------------------------------------------------------------ bounds
\* Size of the object heap (client objects that may be constructed).
MaxObjs == 3
\* Largest number of elements inside the login form of a simulated page.
MaxFields == 1

\* ------------------------------------------------------- values and inputs
None == "None"
NoAttr == "<no attribute>"

\* bool(x) of a str-or-None value
Truthy(x) == x # None /\ x # ""

Usernames == {None, "", "alice"}
Passwords == {None, "pw"}

\* shared_app argument values: None, a heap object, or a value that is not
\* an Application (truthy such as "app", falsy such as 0 or "").
SharedNone == [tag |-> "None", id |-> 0, truthy |-> FALSE]
SharedObj(i) == [tag |-> "obj", id |-> i, truthy |-> TRUE]
SharedOther(t) == [tag |-> "other", id |-> 0, truthy |-> t]

Cookies == {"c1"}
NoCookie == "-"

\* ---------------------------------------------------------------- strings
Join(base, endpoint) == base \o endpoint

\* needle in hay  (Python substring test)
Contains(needle, hay) ==
    \E i \in 1 .. (Len(hay) - Len(needle) + 1) :
        SubSeq(hay, i, i + Len(needle) - 1) = needle

CAS_BASE == <<"https://", "cas.ucdavis", ".edu">>
LOGIN_ENDPOINT == <<"/cas/login">>
CAS_MARK == <<"cas.ucdavis">>

APP_BASE == <<"https://", "registrar.ucdavis", ".edu">>
\* method, endpoint and transport options of the calls made by callers
CallArgs == { <<"get", <<"/courses">>, "{}">>,
              <<"post", <<"/courses", "?ref=", "cas.ucdavis">>, "{timeout: 5}">> }

\* The host part of a URL built as scheme, host pieces, path pieces.
HostOf(url) == IF Len(url) >= 3 THEN SubSeq(url, 2, 3) ELSE <<>>
OnAuthDomain(url) == HostOf(url) = HostOf(CAS_BASE)

\* ------------------------------------------------------------------- heap
FreeObj == [cls |-> "free", s |-> 0, auth_service |-> 0,
            username |-> NoAttr, password |-> NoAttr]

\* Heap cells: a constructor call may allocate up to three objects before
\* the capacity guard of Construct looks at the result.
Cells == 1 .. (MaxObjs + 3)
ObjIds == 1 .. MaxObjs

\* isinstance(shared_app, Application): every class of the module derives
\* from Application.
IsApplication(w, sh) == sh.tag = "obj" /\ w.objs[sh.id].cls # "free"

\* isinstance(shared_app, ProtectedApplication)
IsProtected(w, sh) == sh.tag = "obj" /\ w.objs[sh.id].cls = "ProtectedApplication"

\* object.__new__: the next heap cell becomes an instance of cls with no
\* instance attributes yet.
Alloc(w, cls) ==
    [w EXCEPT !.nobj = w.nobj + 1,
              !.objs[w.nobj + 1] = [FreeObj EXCEPT !.cls = cls]]

Raise(w, e) == [w EXCEPT !.exc = e]

\* requests.Session() with the User-Agent header set: a fresh, empty jar.
NewSession(w, self) ==
    [w EXCEPT !.nsess = w.nsess + 1,
              !.jar[w.nsess + 1] = {},
              !.objs[self].s = w.nsess + 1]

\* (variant) the new client gets a copy of the shared session
ShareSessionCopy(w, self, sh) ==
    [w EXCEPT !.nsess = w.nsess + 1,
              !.jar[w.nsess + 1] = w.jar[w.objs[sh.id].s],
              !.objs[self].s = w.nsess + 1,
              !.shared_from[self] = sh.id]

\* self.s = shared_app.s
ShareSession(w, self, sh) ==
    [w EXCEPT !.objs[self].s = w.objs[sh.id].s,
              !.shared_from[self] = sh.id]

\* Application.__init__(self, shared_app)
ApplicationInit(w, self, sh) ==
    IF sh.truthy
    THEN IF IsApplication(w, sh)
         THEN ShareSession(w, self, sh)
         ELSE Raise(w, "ValueError")
    ELSE NewSession(w, self)

\* CAS.__init__(self, username, password, shared_app)
CASInit(w, self, username, password, sh) ==
    LET w1 == ApplicationInit(w, self, sh) IN
    IF w1.exc # None THEN w1
    ELSE [w1 EXCEPT !.objs[self].username = username,
                    !.objs[self].password = password]

\* (variant) the auth service is constructed without shared_app
NewAuthServiceOwnSession(w, self, username, password) ==
    LET w1 == Alloc(w, "CAS")
        cas == w1.nobj
        w2 == CASInit(w1, cas, username, password, SharedNone)
    IN IF w2.exc # None THEN w2
       ELSE [w2 EXCEPT !.objs[self].auth_service = cas]

\* self.CAS(username, password, shared_app=self) assigned to
\* self.auth_service
NewAuthService(w, self, username, password) ==
    LET w1 == Alloc(w, "CAS")
        cas == w1.nobj
        w2 == CASInit(w1, cas, username, password, SharedObj(self))
    IN IF w2.exc # None THEN w2
       ELSE [w2 EXCEPT !.objs[self].auth_service = cas]

\* shared_app.username / shared_app.password: attribute lookup on the
\* shared object; a missing attribute raises AttributeError.
InheritAuthService(w, self, sh) ==
    LET o == w.objs[sh.id] IN
    IF o.username = NoAttr \/ o.password = NoAttr
    THEN Raise(w, "AttributeError")
    ELSE NewAuthService(w, self, o.username, o.password)

\* ProtectedApplication.__init__(self, username, password, shared_app)
ProtectedInit(w, self, username, password, sh) ==
    LET w1 == ApplicationInit(w, self, sh)
        w2 == IF w1.exc # None THEN w1
              ELSE IF IsProtected(w1, sh) THEN InheritAuthService(w1, self, sh)
              ELSE w1
    IN IF w2.exc # None THEN w2
       ELSE IF Truthy(username) /\ Truthy(password)
            THEN NewAuthService(w2, self, username, password)
            ELSE w2

\* ------------------------------------------------------- simulated backend
\* A page body: whether it holds '<div id="msg" class="success"', and the
\* form with id "fm1" as BeautifulSoup would find it (present or not, its
\* action attribute, its descendant tags in document order).
Elements ==
    { [type |-> "hidden", name |-> "lt",       value |-> "X"],
      [type |-> "hidden", name |-> "execution", value |-> NoAttr],
      [type |-> "submit", name |-> "submit",   value |-> "LOGIN"],
      [type |-> "hidden", name |-> "username", value |-> "mallory"] }

ElemSeqs == UNION { [1 .. n -> Elements] : n \in 0 .. MaxFields }

NoForm == [present |-> FALSE, action |-> NoAttr, elems |-> <<>>]
Forms == {NoForm} \cup
         [present : {TRUE}, action : {NoAttr, LOGIN_ENDPOINT}, elems : ElemSeqs]

Pages == [marker : BOOLEAN, form : Forms]
PlainPage == [marker |-> FALSE, form |-> NoForm]
SuccessPage == [marker |-> TRUE, form |-> NoForm]
LoginPage == [marker |-> FALSE,
              form |-> [present |-> TRUE, action |-> LOGIN_ENDPOINT, elems |-> <<>>]]

AppUrl == Join(APP_BASE, <<"/courses">>)
RefUrl == Join(APP_BASE, <<"/courses", "?ref=", "cas.ucdavis">>)
CasUrl == Join(CAS_BASE, LOGIN_ENDPOINT)

Replies(urls, pages) ==
    [url : urls, page : pages, cookie : Cookies \cup {NoCookie}]

\* What the backend may answer to a request of an application client, to
\* the GET of the login page and to the POST of the login form.
AppReplies == Replies({AppUrl, RefUrl}, {PlainPage}) \cup Replies({CasUrl}, {LoginPage})
LoginGetReplies == Replies({CasUrl}, Pages)
LoginPostReplies == Replies({CasUrl}, {SuccessPage, LoginPage})

\* The response object handed to the code (cookies go to the session jar).
Response(reply) == [url |-> reply.url, page |-> reply.page]
NoResponse == [url |-> <<>>, page |-> PlainPage]

\* ------------------------------------------------------------------ state
VARIABLES
    objs,         \* heap: cell -> object (class and instance attributes)
    nobj,         \* number of allocated cells
    nsess,        \* number of requests.Session objects created so far
    jar,          \* session -> set of cookies it holds
    shared_from,  \* history: object -> the shared_app it took its session from (0: none)
    lastCons,     \* history: the latest constructor call and how it ended
    pc,           \* position inside the running request()/auth() call
    call,         \* the running (or latest) call and its arguments
    r,            \* local r of ProtectedApplication.request
    auth,         \* auth(): body of auth_page, data, form action, body of r, result
    log,          \* history of the call: HTTP requests sent and auth() invocations
    outcome,      \* how the latest call ended: "returned" or the exception raised
    ret,          \* the response returned to the caller
    tpc,          \* data containers: stage of the run ("off" while clients run)
    tin,          \* data containers: the constructor arguments drawn
    tout          \* data containers: the objects built and the results computed

cvars == <<objs, nobj, nsess, jar, shared_from, lastCons, pc, call, r, auth,
           log, outcome, ret>>
tvars == <<tpc, tin, tout>>
vars == <<cvars, tvars>>

heap == <<objs, nobj, nsess, jar, shared_from>>

World == [objs |-> objs, nobj |-> nobj, nsess |-> nsess, jar |-> jar,
          shared_from |-> shared_from, exc |-> None]

NoCons == [cls |-> "none", username |-> None, password |-> None,
           shared |-> SharedNone, exc |-> None, id |-> 0, sessions |-> 0]
NoCall == [kind |-> "none", client |-> 0, method |-> "", base |-> <<>>,
           endpoint |-> <<>>, kwargs |-> ""]
NoAuth == [result |-> "none", page |-> PlainPage, data |-> {}, action |-> NoAttr,
           r |-> PlainPage]

\* no client object exists yet
ClientInit ==
    /\ objs = [i \in Cells |-> FreeObj]
    /\ nobj = 0
    /\ nsess = 0
    /\ jar = [i \in Cells |-> {}]
    /\ shared_from = [i \in Cells |-> 0]
    /\ lastCons = NoCons
    /\ pc = "idle"
    /\ call = NoCall
    /\ r = NoResponse
    /\ auth = NoAuth
    /\ log = <<>>
    /\ outcome = "none"
    /\ ret = NoResponse

Init ==
    /\ ClientInit
    /\ tpc = "off"
    /\ tin = <<>>
    /\ tout = <<>>

\* ------------------------------------------------------------ construction
\* The constructor of class cls run on a freshly allocated object.
RunInit(cls, username, password, sh) ==
    LET w == Alloc(World, cls) IN
    IF cls = "Application"
    THEN ApplicationInit(w, w.nobj, sh)
    ELSE ProtectedInit(w, w.nobj, username, password, sh)

SharedArgs == {SharedNone, SharedOther(TRUE), SharedOther(FALSE)}
                 \cup { SharedObj(i) : i \in 1 .. nobj }

\* x = cls(username, password, shared_app): on an exception the new object
\* is dropped, sessions it created stay created.
Construct(cls, username, password, sh) ==
    LET w == RunInit(cls, username, password, sh) IN
    /\ pc = "idle"
    /\ w.exc = None => w.nobj <= MaxObjs
    /\ lastCons' = [cls |-> cls, username |-> username, password |-> password,
                    shared |-> sh, exc |-> w.exc,
                    id |-> IF w.exc = None THEN nobj + 1 ELSE 0,
                    sessions |-> w.nsess - nsess]
    /\ nsess' = w.nsess
    /\ jar' = w.jar
    /\ IF w.exc = None
       THEN objs' = w.objs /\ nobj' = w.nobj /\ shared_from' = w.shared_from
       ELSE UNCHANGED <<objs, nobj, shared_from>>
    /\ pc' = "done"
    /\ UNCHANGED <<call, r, auth, log, outcome, ret, tvars>>

ConstructApplication ==
    \E sh \in SharedArgs : Construct("Application", None, None, sh)

ConstructProtected ==
    \E u \in Usernames, p \in Passwords, sh \in SharedArgs :
        Construct("ProtectedApplication", u, p, sh)

\* ------------------------------------------------------------------- calls
Kwargs(opts, data) == [opts |-> opts, data |-> data]
NoKwargs == Kwargs("{}", {})

HttpEvent(c, method, url, kwargs) ==
    [op |-> "http", client |-> c, method |-> method, url |-> url,
     kwargs |-> kwargs, cookies |-> jar[objs[c].s]]
AuthEvent(c) ==
    [op |-> "auth", client |-> c, method |-> "", url |-> <<>>,
     kwargs |-> NoKwargs, cookies |-> {}]

\* Application.request: self.s.request(method, ''.join([base, endpoint]),
\* **kwargs).  The session sends its cookies and keeps those of the reply.
RequestEvent(c, method, base, endpoint, kwargs) ==
    HttpEvent(c, method, Join(base, endpoint), kwargs)

Received(c, reply) ==
    [jar EXCEPT ![objs[c].s] =
        @ \cup (IF reply.cookie = NoCookie THEN {} ELSE {reply.cookie})]

\* (variant) the test with its sense inverted
NeedsAuthInverted(resp) == ~Contains(CAS_MARK, resp.url)

\* 'cas.ucdavis' in r.url
NeedsAuth(resp) == Contains(CAS_MARK, resp.url)

\* '<div id="msg" class="success"' in page.text
HasSuccessMarker(page) == page.marker

\* data[k] = v
DictSet(d, k, v) == { kv \in d : kv[1] # k } \cup { <<k, v>> }

\* (variant) only <input type="hidden"> elements are collected
RECURSIVE CollectHiddenOnly(_, _)
CollectHiddenOnly(elems, d) ==
    IF elems = <<>> THEN d
    ELSE LET child == Head(elems) IN
         CollectHiddenOnly(Tail(elems),
                           IF child.type = "hidden" /\ child.name # NoAttr
                                                    /\ child.value # NoAttr
                           THEN DictSet(d, child.name, child.value)
                           ELSE d)

\* for child in login_form.find_all(text=False):
\*     if child.has_attr('name') and child.has_attr('value'): data[name] = value
RECURSIVE CollectFields(_, _)
CollectFields(elems, d) ==
    IF elems = <<>> THEN d
    ELSE LET child == Head(elems) IN
         CollectFields(Tail(elems),
                       IF child.name # NoAttr /\ child.value # NoAttr
                       THEN DictSet(d, child.name, child.value)
                       ELSE d)

\* the dict posted by auth()
LoginData(form, username, password) ==
    DictSet(DictSet(CollectFields(form.elems, {}), "username", username),
            "password", password)

\* (variant) no early return when the marker is present
AfterLoginPageNoReturn(page) ==
    IF ~page.form.present THEN "AttributeError"
    ELSE IF page.form.action = NoAttr THEN "KeyError"
    ELSE "post"

\* (variant) a page without the login form counts as logged in
AfterLoginPageNoFormReturns(page) ==
    IF HasSuccessMarker(page) \/ ~page.form.present THEN "returned"
    ELSE IF page.form.action = NoAttr THEN "KeyError"
    ELSE "post"

\* auth() from the response of the GET up to the POST: "returned" (already
\* logged in), the exception raised, or "post".
AfterLoginPage(page) ==
    IF HasSuccessMarker(page) THEN "returned"
    ELSE IF ~page.form.present THEN "AttributeError"
    ELSE IF page.form.action = NoAttr THEN "KeyError"
    ELSE "post"

\* auth() after the response of the POST
AfterLoginPost(page) ==
    IF ~HasSuccessMarker(page) THEN "InvalidLoginError" ELSE "returned"

\* (variant) the exception of auth() is swallowed and the request retried
AfterAuthSwallow(result) == "retry"

\* ProtectedApplication.request after self.auth_service.auth(): an
\* exception propagates, a normal return goes on to the second request.
AfterAuth(result) == IF result = "returned" THEN "retry" ELSE "raise"

\* (variant) the retry is always sent as a GET without the options
RetryArgsAsGet(c) == [c EXCEPT !.method = "get", !.kwargs = NoKwargs]

\* The arguments of the second super().request(...)
RetryArgs(c) == c

\* the CAS object whose auth() is running
AuthClient ==
    IF call.kind = "auth" THEN call.client ELSE objs[call.client].auth_service

StartCall(kind, c, method, endpoint, opts) ==
    /\ pc = "idle"
    /\ call' = [kind |-> kind, client |-> c, method |-> method, base |-> APP_BASE,
                endpoint |-> endpoint, kwargs |-> Kwargs(opts, {})]
    /\ UNCHANGED <<objs, nobj, nsess, shared_from, lastCons, tvars>>

\* Application.request on a plain Application
AppRequest(c, method, endpoint, opts, reply) ==
    /\ objs[c].cls = "Application"
    /\ StartCall("plain", c, method, endpoint, opts)
    /\ log' = <<RequestEvent(c, method, APP_BASE, endpoint, Kwargs(opts, {}))>>
    /\ jar' = Received(c, reply)
    /\ r' = NoResponse
    /\ auth' = NoAuth
    /\ ret' = Response(reply)
    /\ outcome' = "returned"
    /\ pc' = "done"

\* ProtectedApplication.request up to the return of r, or up to the call
\* of self.auth_service.auth()
ProtRequest(c, method, endpoint, opts, reply) ==
    LET first == Response(reply) IN
    /\ objs[c].cls = "ProtectedApplication"
    /\ StartCall("request", c, method, endpoint, opts)
    /\ jar' = Received(c, reply)
    /\ r' = first
    /\ IF ~NeedsAuth(first)
       THEN /\ log' = <<RequestEvent(c, method, APP_BASE, endpoint, Kwargs(opts, {}))>>
            /\ ret' = first
            /\ outcome' = "returned"
            /\ auth' = NoAuth
            /\ pc' = "done"
       ELSE IF objs[c].auth_service = 0
       THEN /\ log' = <<RequestEvent(c, method, APP_BASE, endpoint, Kwargs(opts, {}))>>
            /\ ret' = NoResponse
            /\ outcome' = "AttributeError"
            /\ auth' = NoAuth
            /\ pc' = "done"
       ELSE /\ log' = <<RequestEvent(c, method, APP_BASE, endpoint, Kwargs(opts, {})),
                        AuthEvent(objs[c].auth_service)>>
            /\ ret' = NoResponse
            /\ outcome' = "none"
            /\ auth' = [NoAuth EXCEPT !.result = "running"]
            /\ pc' = "auth_get"

\* a caller invokes auth() of an auth service directly
AuthCall(c) ==
    /\ objs[c].cls = "CAS"
    /\ StartCall("auth", c, "", <<>>, "{}")
    /\ log' = <<AuthEvent(c)>>
    /\ r' = NoResponse
    /\ ret' = NoResponse
    /\ outcome' = "none"
    /\ auth' = [NoAuth EXCEPT !.result = "running"]
    /\ pc' = "auth_get"
    /\ UNCHANGED jar

\* auth() has ended with result: back in the caller
FinishAuth(result) ==
    IF call.kind = "request" /\ AfterAuth(result) = "retry"
    THEN /\ pc' = "retry"
         /\ outcome' = "none"
    ELSE /\ pc' = "done"
         /\ outcome' = result

\* auth(): GET of the login page, the marker test, the form and its fields
AuthGet(reply) ==
    LET cas == AuthClient
        page == reply.page
        next == AfterLoginPage(page)
    IN
    /\ pc = "auth_get"
    /\ log' = Append(log, RequestEvent(cas, "get", CAS_BASE, LOGIN_ENDPOINT, NoKwargs))
    /\ jar' = Received(cas, reply)
    /\ IF next = "post"
       THEN /\ auth' = [result |-> "running", page |-> page,
                        data |-> LoginData(page.form, objs[cas].username,
                                           objs[cas].password),
                        action |-> page.form.action, r |-> PlainPage]
            /\ pc' = "auth_post"
            /\ outcome' = "none"
       ELSE /\ auth' = [NoAuth EXCEPT !.result = next, !.page = page]
            /\ FinishAuth(next)
    /\ UNCHANGED <<objs, nobj, nsess, shared_from, lastCons, call, r, ret, tvars>>

\* (variant) a rejected login is tried again from the login page
AuthPostRelogin(reply) ==
    LET cas == AuthClient
        result == AfterLoginPost(reply.page)
    IN
    /\ pc = "auth_post"
    /\ log' = Append(log, RequestEvent(cas, "post", CAS_BASE, auth.action,
                                       Kwargs("{}", auth.data)))
    /\ jar' = Received(cas, reply)
    /\ IF result = "InvalidLoginError"
       THEN /\ auth' = [NoAuth EXCEPT !.result = "running"]
            /\ pc' = "auth_get"
            /\ outcome' = "none"
       ELSE /\ auth' = [auth EXCEPT !.result = result, !.r = reply.page]
            /\ FinishAuth(result)
    /\ UNCHANGED <<objs, nobj, nsess, shared_from, lastCons, call, r, ret, tvars>>

\* auth(): POST of the login form and the marker test on its response
AuthPost(reply) ==
    LET cas == AuthClient
        result == AfterLoginPost(reply.page)
    IN
    /\ pc = "auth_post"
    /\ log' = Append(log, RequestEvent(cas, "post", CAS_BASE, auth.action,
                                       Kwargs("{}", auth.data)))
    /\ jar' = Received(cas, reply)
    /\ auth' = [auth EXCEPT !.result = result, !.r = reply.page]
    /\ FinishAuth(result)
    /\ UNCHANGED <<objs, nobj, nsess, shared_from, lastCons, call, r, ret, tvars>>

\* (variant) the second response is tested like the first: on the
\* authentication domain again, auth() is invoked again
RetryChecked(reply) ==
    LET a == RetryArgs(call)
        second == Response(reply)
        sent == Append(log, RequestEvent(call.client, a.method, a.base, a.endpoint,
                                         a.kwargs))
    IN
    /\ pc = "retry"
    /\ jar' = Received(call.client, reply)
    /\ IF NeedsAuth(second)
       THEN /\ log' = Append(sent, AuthEvent(objs[call.client].auth_service))
            /\ pc' = "auth_get"
            /\ auth' = [NoAuth EXCEPT !.result = "running"]
            /\ UNCHANGED <<ret, outcome>>
       ELSE /\ log' = sent
            /\ ret' = second
            /\ outcome' = "returned"
            /\ pc' = "done"
            /\ auth' = NoAuth
    /\ UNCHANGED <<objs, nobj, nsess, shared_from, lastCons, call, r, tvars>>

\* ProtectedApplication.request: the second request, whose response is
\* returned.  The record of the finished auth() is dropped.
Retry(reply) ==
    LET a == RetryArgs(call) IN
    /\ pc = "retry"
    /\ log' = Append(log, RequestEvent(call.client, a.method, a.base, a.endpoint,
                                       a.kwargs))
    /\ jar' = Received(call.client, reply)
    /\ ret' = Response(reply)
    /\ outcome' = "returned"
    /\ pc' = "done"
    /\ auth' = NoAuth
    /\ UNCHANGED <<objs, nobj, nsess, shared_from, lastCons, call, r, tvars>>

\* The caller has its result (or exception) and goes on: the locals of the
\* finished call and the history kept about it are dropped.
Forget ==
    /\ pc = "done"
    /\ pc' = "idle"
    /\ lastCons' = NoCons
    /\ call' = NoCall
    /\ r' = NoResponse
    /\ auth' = NoAuth
    /\ log' = <<>>
    /\ outcome' = "none"
    /\ ret' = NoResponse
    /\ UNCHANGED <<heap, tvars>>

Next ==
    \/ ConstructApplication
    \/ ConstructProtected
    \/ \E c \in ObjIds, a \in CallArgs, reply \in AppReplies :
          AppRequest(c, a[1], a[2], a[3], reply)
    \/ \E c \in ObjIds, a \in CallArgs, reply \in AppReplies :
          ProtRequest(c, a[1], a[2], a[3], reply)
    \/ \E c \in ObjIds : AuthCall(c)
    \/ \E reply \in LoginGetReplies : AuthGet(reply)
    \/ \E reply \in LoginPostReplies : AuthPost(reply)
    \/ \E reply \in AppReplies : Retry(reply)
    \/ Forget

Spec == Init /\ [][Next]_vars

\* ----------------------------------------------------------------- claims
IsHttp(e) == e.op = "http"
IsAuth(e) == e.op = "auth"
Https(l) == SelectSeq(l, IsHttp)
Auths(l) == SelectSeq(l, IsAuth)
\* the requests that the running request() call issued itself
IsOwn(e) == e.op = "http" /\ e.client = call.client
Own(l) == SelectSeq(l, IsOwn)
\* the requests that the auth service issued
IsLogin(e) == e.op = "http" /\ e.client = AuthClient
Logins(l) == SelectSeq(l, IsLogin)
IsLoginPost(e) == IsLogin(e) /\ e.method = "post"
LoginPosts(l) == SelectSeq(l, IsLoginPost)

OriginalEvent ==
    [op |-> "http", client |-> call.client, method |-> call.method,
     url |-> Join(call.base, call.endpoint), kwargs |-> call.kwargs]

SameRequest(e, o) ==
    /\ e.op = o.op /\ e.client = o.client /\ e.method = o.method
    /\ e.url = o.url /\ e.kwargs = o.kwargs

\* C1: a ProtectedApplication.request whose first response is on the
\* authentication domain and whose auth() returns normally issues exactly
\* two requests to the original endpoint and exactly one auth() call, in
\* the order request, auth, request.
C1_RequestAuthRequest ==
    (pc = "done" /\ call.kind = "request" /\ OnAuthDomain(r.url)
        /\ outcome = "returned")
    => /\ Len(Own(log)) = 2
       /\ Len(Auths(log)) = 1
       /\ SameRequest(Own(log)[1], OriginalEvent)
       /\ SameRequest(Own(log)[2], OriginalEvent)
       /\ log[1] = Own(log)[1]
       /\ IsAuth(log[2])
       /\ log[Len(log)] = Own(log)[2]
       /\ Len(log) >= 4

\* redirected once to the login page, one login transaction (GET and POST),
\* then the retry succeeds
C1_Witness ==
    /\ pc = "done" /\ call.kind = "request" /\ OnAuthDomain(r.url)
    /\ outcome = "returned" /\ Len(log) = 5 /\ ret.url = AppUrl

RECURSIVE Root(_)
Root(o) == IF shared_from[o] = 0 THEN o ELSE Root(shared_from[o])
Family(a, b) == Root(a) = Root(b)
Live == 1 .. nobj

\* C2: once B is constructed with shared_app=A, A and B (and every client
\* chained from them) refer to the same session in every reachable state,
\* and each request of one presents exactly the cookies the session of the
\* other holds.
C2_SessionAliasing ==
    /\ [](\A a, b \in Live : Family(a, b) => objs[a].s = objs[b].s)
    /\ [][Len(Https(log')) > Len(Https(log))
            => LET e == Https(log')[Len(Https(log'))] IN
               \A a \in Live : Family(a, e.client) => e.cookies = jar[objs[a].s]
         ]_vars

\* the auth service (constructed with shared_app=client) received a cookie
\* during login, and the retry of the client presented it
C2_Witness ==
    /\ pc = "done" /\ call.kind = "request" /\ Len(log) = 5
    /\ shared_from[log[3].client] = call.client
    /\ log[1].cookies = {} /\ log[3].cookies = {}
    /\ log[5].client = call.client /\ log[5].cookies = {"c1"}

AuthEnded == auth.result \notin {"none", "running"}
Creds(c) == { <<"username", objs[c].username>>, <<"password", objs[c].password>> }

\* name/value pairs of the hidden fields of the form (a field named
\* username or password is taken to be replaced by the credentials)
HiddenPairs(form) ==
    { <<form.elems[i].name, form.elems[i].value>> :
        i \in { j \in DOMAIN form.elems :
                  /\ form.elems[j].type = "hidden"
                  /\ form.elems[j].name # NoAttr
                  /\ form.elems[j].value # NoAttr
                  /\ form.elems[j].name \notin {"username", "password"} } }

\* name/value pairs of all elements of the form that have both attributes,
\* the last one of each name, names username and password left out
Carries(form, j) == form.elems[j].name # NoAttr /\ form.elems[j].value # NoAttr
ElementPairs(form) ==
    { <<form.elems[i].name, form.elems[i].value>> :
        i \in { j \in DOMAIN form.elems :
                  /\ Carries(form, j)
                  /\ form.elems[j].name \notin {"username", "password"}
                  /\ \A k \in DOMAIN form.elems :
                        (k > j /\ Carries(form, k))
                            => form.elems[k].name # form.elems[j].name } }

LoginFormCase ==
    AuthEnded /\ ~auth.page.marker /\ auth.page.form.present
              /\ auth.page.form.action # NoAttr

PostedOnce(fields) ==
    /\ Len(LoginPosts(log)) = 1
    /\ LoginPosts(log)[1].url = Join(CAS_BASE, auth.page.form.action)
    /\ LoginPosts(log)[1].kwargs.data = fields
    /\ (auth.result = "InvalidLoginError") <=> ~auth.r.marker
    /\ (auth.result = "returned") <=> auth.r.marker

C4_AlreadyLoggedIn ==
    (AuthEnded /\ auth.page.marker)
    => /\ auth.result = "returned"
       /\ LoginPosts(log) = <<>>
       /\ Len(Logins(log)) = 1
       /\ Logins(log)[1].method = "get"
       /\ Logins(log)[1].url = Join(CAS_BASE, LOGIN_ENDPOINT)
       /\ (call.kind = "auth" => pc = "done" /\ outcome = "returned")

C4_Witness ==
    /\ call.kind = "auth" /\ pc = "done" /\ auth.page.marker
    /\ auth.page.form.present /\ outcome = "returned"

\* C5: every constructed ProtectedApplication invokes auth() of its auth
\* service whenever the first response of a request is on the
\* authentication domain.
C5_Original ==
    (call.kind = "request" /\ OnAuthDomain(r.url))
    => /\ objs[call.client].auth_service # 0
       /\ \E i \in DOMAIN log :
             IsAuth(log[i]) /\ log[i].client = objs[call.client].auth_service

ConsProtectedShared ==
    /\ lastCons.cls = "ProtectedApplication"
    /\ lastCons.shared.tag = "obj"
    /\ objs[lastCons.shared.id].cls = "ProtectedApplication"

\* the credentials held by the auth service of client c
HasCreds(c, u, p) ==
    /\ objs[c].auth_service # 0
    /\ objs[objs[c].auth_service].username = u
    /\ objs[objs[c].auth_service].password = p

\* C6: ProtectedApplication(shared_app=<a ProtectedApplication>) without
\* explicit credentials succeeds and its auth service, bound to the new
\* client, holds the username and password of the shared client.
C6_Original ==
    (ConsProtectedShared /\ lastCons.username = None /\ lastCons.password = None
        /\ objs[lastCons.shared.id].auth_service # 0)
    => /\ lastCons.exc = None
       /\ lastCons.id # 0
       /\ LET cas == objs[lastCons.shared.id].auth_service IN
          HasCreds(lastCons.id, objs[cas].username, objs[cas].password)
       /\ shared_from[objs[lastCons.id].auth_service] = lastCons.id

\* C7: with a protected shared_app and explicit username/password the
\* resulting auth service holds the explicit credentials.
C7_Original ==
    (ConsProtectedShared /\ Truthy(lastCons.username) /\ Truthy(lastCons.password))
    => /\ lastCons.exc = None
       /\ lastCons.id # 0
       /\ HasCreds(lastCons.id, lastCons.username, lastCons.password)

\* C8: an InvalidLoginError of auth() inside ProtectedApplication.request
\* reaches the caller; the original request is not retried and no response
\* is returned.
C8_LoginErrorPropagates ==
    (call.kind = "request" /\ auth.result = "InvalidLoginError")
    => /\ pc = "done"
       /\ outcome = "InvalidLoginError"
       /\ ret = NoResponse
       /\ Len(Own(log)) = 1
       /\ IsLoginPost(log[Len(log)])

C8_Witness ==
    /\ call.kind = "request" /\ outcome = "InvalidLoginError"
    /\ OnAuthDomain(r.url) /\ ~auth.r.marker /\ Len(log) = 4

\* C9: a supplied shared_app that is not an Application makes the
\* constructor fail with ValueError, and no session is created.
C9_Original ==
    (lastCons.cls # "none" /\ lastCons.shared.tag = "other")
    => lastCons.exc = "ValueError" /\ lastCons.sessions = 0

\* C10: when the first response is not on the authentication domain, that
\* response is returned, auth() is not invoked and exactly one request is
\* issued.
C10_Original ==
    (call.kind = "request" /\ ~OnAuthDomain(r.url))
    => /\ pc = "done"
       /\ outcome = "returned"
       /\ ret = r
       /\ Auths(log) = <<>>
       /\ Len(Https(log)) = 1

\* C11: the response of the second request is returned whatever its URL:
\* the step after auth() ends the call with a response, without another
\* auth() and with the second (and last) request of the client; a call
\* never has more than two own requests or more than one auth().
C11_AtMostOneRetry ==
    /\ [](Len(Auths(log)) <= 1 /\ (call.kind = "request" => Len(Own(log)) <= 2))
    /\ [][pc = "retry"
            => /\ pc' = "done"
               /\ outcome' = "returned"
               /\ ret' # NoResponse
               /\ Auths(log') = Auths(log)
               /\ Len(log') = Len(log) + 1
               /\ IsOwn(log'[Len(log')])
               /\ Len(Own(log')) = 2
         ]_vars

\* the second response is on the authentication domain again and is returned
C11_Witness ==
    /\ pc = "done" /\ call.kind = "request" /\ outcome = "returned"
    /\ OnAuthDomain(r.url) /\ OnAuthDomain(ret.url)
    /\ Len(Own(log)) = 2 /\ Len(Auths(log)) = 1

\* C16: a login page with neither the success marker nor the login form
\* makes auth() fail with a lookup error (AttributeError on the missing
\* form): not InvalidLoginError, no normal return, no POST.
C16_MissingForm ==
    (AuthEnded /\ ~auth.page.marker /\ ~auth.page.form.present)
    => /\ auth.result = "AttributeError"
       /\ LoginPosts(log) = <<>>
       /\ pc = "done"
       /\ outcome = "AttributeError"
       /\ ret = NoResponse
       /\ Len(Logins(log)) = 1

C16_Witness ==
    /\ AuthEnded /\ ~auth.page.marker /\ ~auth.page.form.present
    /\ call.kind = "request" /\ outcome = "AttributeError" /\ Len(log) = 3

\* C17: the auth service of a protected client always uses the session of
\* its client (and of every client sharing with it), and the request sent
\* after auth() presents exactly the cookies the auth service's session
\* holds.
C17_AuthServiceSession ==
    /\ [](\A c \in Live : objs[c].auth_service # 0
            => /\ objs[objs[c].auth_service].s = objs[c].s
               /\ \A b \in Live : Family(b, c)
                     => objs[b].s = objs[objs[c].auth_service].s)
    /\ [][pc = "retry"
            => log'[Len(log')].cookies = jar[objs[objs[call.client].auth_service].s]
         ]_vars

\* the login GET (already logged in) brought a cookie that the retry presents
C17_Witness ==
    /\ pc = "done" /\ call.kind = "request" /\ Len(log) = 4
    /\ objs[call.client].auth_service = log[3].client
    /\ log[1].cookies = {} /\ log[3].cookies = {}
    /\ log[4].client = call.client /\ log[4].cookies = {"c1"}

\* C18: the second request of a call has the method, URL (base and
\* endpoint) and transport options of the first.
C18_RetrySameArguments ==
    (call.kind = "request" /\ Len(Own(log)) = 2)
    => /\ Own(log)[2].method = Own(log)[1].method
       /\ Own(log)[2].url = Own(log)[1].url
       /\ Own(log)[2].kwargs = Own(log)[1].kwargs
       /\ Own(log)[2].method = call.method
       /\ Own(log)[2].url = Join(call.base, call.endpoint)
       /\ Own(log)[2].kwargs = call.kwargs

C18_Witness ==
    /\ call.kind = "request" /\ Len(Own(log)) = 2
    /\ Own(log)[2].method = "post" /\ Own(log)[2].kwargs.opts = "{timeout: 5}"

\* the requests sent by auth services
IsCasHttp(e) == e.op = "http" /\ objs[e.client].cls = "CAS"
IsCasGet(e) == IsCasHttp(e) /\ e.method = "get"
IsCasPost(e) == IsCasHttp(e) /\ e.method = "post"
InCall == pc \in {"auth_get", "auth_post", "retry"}

\* C19: auth() never leads to another auth(): a call has at most one
\* auth(), which sends one GET and at most one POST, every step of a
\* running call sends exactly one request and the call is over after at
\* most four of them.
C19_NoRecursion ==
    /\ [](/\ Len(Auths(log)) <= 1
          /\ Len(Https(log)) <= 4
          /\ Len(SelectSeq(log, IsCasGet)) <= 1
          /\ Len(SelectSeq(log, IsCasPost)) <= 1
          /\ (AuthEnded => Len(SelectSeq(log, IsCasGet)) = 1)
          /\ (InCall => Len(Https(log)) < 4 /\ ENABLED Next))
    /\ [][InCall => /\ Len(Https(log')) = Len(Https(log)) + 1
                    /\ Auths(log') = Auths(log)]_vars

\* a call that needed all four requests
C19_Witness ==
    /\ pc = "done" /\ call.kind = "request" /\ Len(Https(log)) = 4
    /\ Len(SelectSeq(log, IsCasPost)) = 1

\* ------------------------------------------------- data containers (model)
\* A str is a sequence of characters; a value is an int or a str.
IntVal(n) == [kind |-> "int", val |-> n]
StrVal(chars) == [kind |-> "str", val |-> chars]

Digit(d) == <<"0", "1", "2", "3", "4", "5", "6", "7", "8", "9">>[d + 1]

\* str(n) of an int n >= 0
RECURSIVE IntToStr(_)
IntToStr(n) ==
    IF n < 10 THEN <<Digit(n)>> ELSE IntToStr(n \div 10) \o <<Digit(n % 10)>>

\* str(x), '{}'.format(x)
Str(x) == IF x.kind = "int" THEN IntToStr(x.val) ELSE x.val

\* a == b of two values: an int never equals a str
PyEq(a, b) == a.kind = b.kind /\ a.val = b.val

\* Term.Session: member name and value
SessionTable ==
    { <<"FALL_QUARTER",     <<"1", "0">> >>,
      <<"FALL_SEMESTER",    <<"0", "9">> >>,
      <<"SUMMER_SESSION_2", <<"0", "7">> >>,
      <<"SUMMER_SPECIAL",   <<"0", "6">> >>,
      <<"SUMMER_SESSION_1", <<"0", "5">> >>,
      <<"SPRING_QUARTER",   <<"0", "3">> >>,
      <<"SPRING_SEMESTER",  <<"0", "2">> >>,
      <<"WINTER_QUARTER",   <<"0", "1">> >> }

SessionMembers == { m[1] : m \in SessionTable }
\* Term.Session.values()
SessionValues == { m[2] : m \in SessionTable }
\* member.value
SessionValue(name) == (CHOOSE m \in SessionTable : m[1] = name)[2]

\* (variant) the session argument is stored as given
SessionUnchecked(x) ==
    IF x.kind = "str" /\ x.val \in SessionValues
    THEN (CHOOSE m \in SessionTable : m[2] = x.val)[1]
    ELSE IF x.kind = "member" THEN x.val ELSE "UNLISTED"

\* self.Session(session): the member itself for a member, the member with
\* that value for a value, ValueError for anything else
SessionLookup(x) ==
    IF x.kind = "member" THEN x.val
    ELSE IF x.kind = "str" /\ x.val \in SessionValues
    THEN (CHOOSE m \in SessionTable : m[2] = x.val)[1]
    ELSE "ValueError"

NoTerm == [exc |-> "ValueError", year |-> NoAttr, session |-> NoAttr]

\* Term.__init__(self, year, session)
TermInit(year, session) ==
    LET m == SessionLookup(session) IN
    IF m = "ValueError" THEN NoTerm
    ELSE [exc |-> None, year |-> year, session |-> m]

\* (variant) '{1}{0}': session value first
TermCodeSwapped(t) == SessionValue(t.session) \o Str(t.year)

\* Term.code
TermCode(t) == Str(t.year) \o SessionValue(t.session)

\* (variant) the years are compared as given
TermEqRawYear(a, b) == PyEq(a.year, b.year) /\ a.session = b.session

\* Term.__eq__
TermEq(a, b) == Str(a.year) = Str(b.year) /\ a.session = b.session

\* Course._attrs
CourseAttrs ==
    {"name", "number", "section", "title", "units", "instructor", "subject",
     "ge_credit", "available_seats", "max_enrollment", "meetings",
     "description", "final_exam", "drop_time"}

NoCourse == [exc |-> "KeyError", crn |-> IntVal(0), term |-> NoTerm, attrs |-> <<>>]

\* Course.__init__(self, crn, term, **attrs): every attribute is read from
\* attrs; a missing one raises KeyError
CourseInit(crn, term, attrs) ==
    IF \E n \in CourseAttrs : n \notin DOMAIN attrs THEN NoCourse
    ELSE [exc |-> None, crn |-> crn, term |-> term,
          attrs |-> [n \in CourseAttrs |-> attrs[n]]]

\* (variant) the descriptive attributes take part in the comparison
CourseEqAll(a, b) == PyEq(a.crn, b.crn) /\ TermEq(a.term, b.term) /\ a.attrs = b.attrs

\* Course.__eq__
CourseEq(a, b) == PyEq(a.crn, b.crn) /\ TermEq(a.term, b.term)

\* --------------------------------------------- data containers (the runs)
\* the last year drawn as an int; the years start at 2014
LastYear == 2014

YearInputs ==
    { IntVal(y) : y \in 2014 .. LastYear }
        \cup { StrVal(<<"2", "0", "1", "4">>), StrVal(<<"0", "2", "0", "1", "4">>) }

SessionInputs ==
    { StrVal(v) : v \in SessionValues }
        \cup { [kind |-> "member", val |-> "FALL_QUARTER"],
               StrVal(<<"1", "1">>), IntVal(10) }

TermSlots == 1 .. 3
Built(objects) == { i \in DOMAIN objects : objects[i].exc = None }

TermArgs == [year : YearInputs, session : SessionInputs]

TermsInit ==
    /\ ClientInit
    /\ tpc = "args"
    /\ tin \in [TermSlots -> TermArgs]
    /\ tout = <<>>

\* t = Term(year, session) for every argument pair drawn
TermConstruct ==
    /\ tpc = "args"
    /\ tout' = [terms |-> [i \in TermSlots |-> TermInit(tin[i].year, tin[i].session)]]
    /\ tpc' = "built"
    /\ UNCHANGED <<cvars, tin>>

\* a == b for every two Terms built, t.code for every Term built
TermCompare ==
    /\ tpc = "built"
    /\ tout' = [terms |-> tout.terms,
                eq |-> [p \in Built(tout.terms) \X Built(tout.terms) |->
                          TermEq(tout.terms[p[1]], tout.terms[p[2]])],
                code |-> [i \in Built(tout.terms) |-> TermCode(tout.terms[i])]]
    /\ tpc' = "compared"
    /\ UNCHANGED <<cvars, tin>>

TermsNext == TermConstruct \/ TermCompare

TermSpec == TermsInit /\ [][TermsNext]_vars

CrnInputs == { IntVal(74382), IntVal(74383), StrVal(<<"7", "4", "3", "8", "2">>) }
CourseTerms ==
    { TermInit(y, StrVal(v)) : y \in YearInputs, v \in { <<"1", "0">>, <<"0", "1">> } }
AttrsGiven(v) == [n \in CourseAttrs |-> v]
AttrInputs ==
    { AttrsGiven("a"), AttrsGiven("b"),
      [n \in CourseAttrs \ {"drop_time"} |-> "a"] }

CourseArgs == [crn : CrnInputs, term : CourseTerms, attrs : AttrInputs]

CoursesInit ==
    /\ ClientInit
    /\ tpc = "course args"
    /\ tin \in [1 .. 2 -> CourseArgs]
    /\ tout = <<>>

\* c = Course(crn, term, **attrs) for every argument tuple drawn
CourseConstruct ==
    /\ tpc = "course args"
    /\ tout' = [courses |-> [i \in 1 .. 2 |->
                               CourseInit(tin[i].crn, tin[i].term, tin[i].attrs)]]
    /\ tpc' = "courses built"
    /\ UNCHANGED <<cvars, tin>>

\* a == b for every two Courses built
CourseCompare ==
    /\ tpc = "courses built"
    /\ tout' = [courses |-> tout.courses,
                eq |-> [p \in Built(tout.courses) \X Built(tout.courses) |->
                          CourseEq(tout.courses[p[1]], tout.courses[p[2]])]]
    /\ tpc' = "courses compared"
    /\ UNCHANGED <<cvars, tin>>

CoursesNext == CourseConstruct \/ CourseCompare

CourseSpec == CoursesInit /\ [][CoursesNext]_vars

\* ------------------------------------------------ data containers (claims)
\* the number a string of decimal digits denotes
DigitChars == { Digit(d) : d \in 0 .. 9 }
DigitVal(ch) == CHOOSE d \in 0 .. 9 : Digit(d) = ch
RECURSIVE NumberOf(_)
NumberOf(chars) ==
    IF chars = <<>> THEN 0
    ELSE 10 * NumberOf(SubSeq(chars, 1, Len(chars) - 1)) + DigitVal(chars[Len(chars)])

\* chars is the decimal numeral of n: digits only, no leading zero
IsNumeralOf(chars, n) ==
    /\ chars # <<>>
    /\ \A k \in 1 .. Len(chars) : chars[k] \in DigitChars
    /\ Len(chars) > 1 => chars[1] # "0"
    /\ NumberOf(chars) = n

\* chars is the text of the year as it was given
IsYearText(chars, year) ==
    IF year.kind = "int" THEN IsNumeralOf(chars, year.val) ELSE chars = year.val

\* two years as given agree once converted to string
YearsAgree(x, y) ==
    CASE x.kind = "int" /\ y.kind = "int" -> x.val = y.val
      [] x.kind = "str" /\ y.kind = "str" -> x.val = y.val
      [] x.kind = "int" /\ y.kind = "str" -> IsNumeralOf(y.val, x.val)
      [] x.kind = "str" /\ y.kind = "int" -> IsNumeralOf(x.val, y.val)

\* the session argument names one of the sessions
ValidSessionInput(x) ==
    \/ x.kind = "member" /\ x.val \in SessionMembers
    \/ x.kind = "str" /\ x.val \in SessionValues

TermsBuilt == tpc \in {"built", "compared"}
TermsCompared == tpc = "compared"
CoursesCompared == tpc = "courses compared"

\* C12: two Courses are equal if and only if their reference numbers are equal
\* and their Terms are equal as Term defines it (years agreeing as strings,
\* same session), whatever the other descriptive attributes are.
C12_CourseEquality ==
    CoursesCompared =>
        \A i \in Built(tout.courses), j \in Built(tout.courses) :
            tout.eq[<<i, j>>]
                <=> /\ tin[i].crn = tin[j].crn
                    /\ YearsAgree(tin[i].term.year, tin[j].term.year)
                    /\ tin[i].term.session = tin[j].term.session

C12_Witness ==
    /\ CoursesCompared
    /\ Built(tout.courses) = {1, 2}
    /\ tout.eq[<<1, 2>>]
    /\ tout.courses[1].attrs # tout.courses[2].attrs
    /\ tin[1].term.year.kind # tin[2].term.year.kind

\* C13: two Terms are equal exactly when their years agree after conversion
\* to string and their sessions are the same, whether a year was given as an
\* int or as a str and whichever objects they are; the relation is reflexive,
\* symmetric and transitive over the Terms built.
C13_TermEquality ==
    TermsCompared =>
        LET B == Built(tout.terms) IN
        /\ \A i \in B, j \in B :
              tout.eq[<<i, j>>]
                  <=> /\ YearsAgree(tin[i].year, tin[j].year)
                      /\ tout.terms[i].session = tout.terms[j].session
        /\ \A i \in B : tout.eq[<<i, i>>]
        /\ \A i \in B, j \in B : tout.eq[<<i, j>>] => tout.eq[<<j, i>>]
        /\ \A i \in B, j \in B, k \in B :
              (tout.eq[<<i, j>>] /\ tout.eq[<<j, k>>]) => tout.eq[<<i, k>>]

C13_Witness ==
    /\ TermsCompared
    /\ Built(tout.terms) = TermSlots
    /\ tin[1].year.kind = "int" /\ tin[2].year.kind = "str"
    /\ tin[1].session.kind = "str" /\ tin[2].session.kind = "member"
    /\ tin[3] = tin[1]
    /\ tout.eq[<<1, 2>>] /\ tout.eq[<<2, 3>>] /\ tout.eq[<<1, 3>>]

\* C14: for every year and every session of the fixed set, Term.code is the
\* text of the year followed by the session's two-digit code, and two Terms
\* are equal if and only if their codes are equal.
C14_TermCode ==
    TermsCompared =>
        LET B == Built(tout.terms) IN
        /\ \A i \in B :
              LET c == tout.code[i] IN
              /\ Len(c) >= 2
              /\ IsYearText(SubSeq(c, 1, Len(c) - 2), tin[i].year)
              /\ <<tout.terms[i].session, SubSeq(c, Len(c) - 1, Len(c))>> \in SessionTable
        /\ \A i \in B, j \in B : tout.eq[<<i, j>>] <=> tout.code[i] = tout.code[j]

C14_Witness ==
    /\ TermsCompared
    /\ Built(tout.terms) = TermSlots
    /\ tin[1].year.kind = "int" /\ tin[2].year.kind = "str"
    /\ tout.code[1] = tout.code[2]
    /\ tout.code[3] # tout.code[1]
    /\ tin[3].year = tin[1].year

\* C15: every Term built has a session of the fixed set of eight sessions;
\* building a Term with any other session value fails with ValueError and
\* leaves no Term.
C15_SessionClosed ==
    TermsBuilt =>
        /\ Cardinality(SessionValues) = 8
        /\ \A i \in TermSlots :
              LET t == tout.terms[i] IN
              /\ t.exc = None =>
                    /\ ValidSessionInput(tin[i].session)
                    /\ t.session \in SessionMembers
                    /\ tin[i].session.kind = "str"
                          => <<t.session, tin[i].session.val>> \in SessionTable
                    /\ t.year = tin[i].year
              /\ ~ValidSessionInput(tin[i].session) =>
                    /\ t.exc = "ValueError"
                    /\ t.year = NoAttr /\ t.session = NoAttr

C15_Witness ==
    /\ TermsBuilt
    /\ tout.terms[1].exc = None
    /\ tout.terms[2].exc = "ValueError" /\ tin[2].session.kind = "str"
    /\ tout.terms[3].exc = "ValueError" /\ tin[3].session.kind = "int"

====
